---- MODULE Spec2Model ----
(***************************************************************************)
(* A model of the StatefulSet control loop of                              *)
(* pkg/controller/statefulset/stateful_set_control.go:                     *)
(* UpdateStatefulSet, getStatefulSetRevisions, updateStatefulSet,          *)
(* updateStatefulSetStatus and truncateHistory.                            *)
(*                                                                         *)
(* One reconcile is one action (Reconcile).  The calls it makes on the     *)
(* pod control, the revision history and the status updater are recorded   *)
(* in the variable pass, together with the inputs of that pass.            *)
(***************************************************************************)
EXTENDS Integers, Sequences, FiniteSets

VARIABLES
    set,      \* the StatefulSet object: spec, generation, deletion mark, published status
    pods,     \* the observed pods handed to UpdateStatefulSet, in ordinal order
    store,    \* the ControllerRevisions held by the revision history
    pass      \* the record of the last call of UpdateStatefulSet

vars == <<set, pods, store, pass>>

----------------------------------------------------------------------------
(* Bounds of the model *)

\* the longest observed pod list, and the largest spec.replicas
MaxPods == 2
\* the largest metadata.generation
MaxGeneration == 2
\* the largest spec.revisionHistoryLimit
MaxHistoryLimit == 1

MaxOrdinal == MaxPods - 1
MaxReplicas == MaxPods
MaxPartition == MaxPods

\* the largest status.collisionCount from which a template is still changed
MaxCollisions == 1
\* the most ControllerRevisions in the history at the start
MaxRevisions == 2

Templates == {"A", "B", "C"}

----------------------------------------------------------------------------
(* Errors.  Every call the control loop makes outside itself may return an *)
(* error; which one does, if any, is an input of a pass.                   *)

\* a nil *apps.StatefulSetStatus or *apps.ControllerRevision
Nil == [nil |-> TRUE]

\* no call returns an error.  list: ListRevisions; newRevision: newRevision;
\* history: UpdateControllerRevision or CreateControllerRevision; apply:
\* ApplyRevision for the current (1) or the update (2) revision; pod: the
\* pod-th call on the pod control; status: UpdateStatefulSetStatus; delete:
\* the delete-th DeleteControllerRevision
NoFault ==
    [list |-> FALSE, newRevision |-> FALSE, history |-> FALSE, apply |-> 0,
     pod |-> 0, status |-> FALSE, delete |-> 0]

----------------------------------------------------------------------------
(* Pods: stateful_set_utils.go predicates used by the control loop.        *)
(* A pod is [ord, rev, phase, ready, terminating, identity, storage];      *)
(* phase "" is a pod object that has not been created.                     *)

isCreated(pod) == pod.phase # ""

isTerminating(pod) == pod.terminating

isRunningAndReady(pod) == pod.phase = "Running" /\ pod.ready

isHealthy(pod) == isRunningAndReady(pod) /\ ~isTerminating(pod)

isFailed(pod) == pod.phase = "Failed"

getPodRevision(pod) == pod.rev

getOrdinal(pod) == pod.ord

identityMatches(s, pod) == pod.identity

storageMatches(s, pod) == pod.storage

\* The set as it is at a revision: the set with that revision's template.
ApplyRevision(s, revision) == [s EXCEPT !.template = revision.template]

\* A new, not yet created pod for an ordinal: below the partition it is built
\* from the current set and tagged with the current revision, otherwise from
\* the update set and tagged with the update revision.
newVersionedStatefulSetPod(currentSet, updateSet, currentRevision, updateRevision, ordinal) ==
    [ord |-> ordinal,
     rev |-> IF currentSet.strategy = "RollingUpdate" /\ ordinal < currentSet.partition
             THEN currentRevision ELSE updateRevision,
     phase |-> "", ready |-> FALSE, terminating |-> FALSE,
     identity |-> TRUE, storage |-> TRUE]

----------------------------------------------------------------------------
(* updateStatefulSet, lines 252-441 *)

\* apps.StatefulSetStatus{} with the generation, revisions and collision
\* count filled in (lines 269-274)
NewStatus(s, currentRevision, updateRevision, collisionCount) ==
    [observedGeneration |-> s.generation,
     replicas |-> 0, readyReplicas |-> 0,
     currentReplicas |-> 0, updatedReplicas |-> 0,
     currentRevision |-> currentRevision.name,
     updateRevision |-> updateRevision.name,
     collisionCount |-> collisionCount]

\* the pair of conditional counter updates the loop bodies share:
\* currentReplicas and updatedReplicas move by d when the pod's revision is
\* the current, respectively the update, revision
CountRevision(status, pod, d) ==
    [status EXCEPT
        !.currentReplicas = IF getPodRevision(pod) = status.currentRevision THEN @ + d ELSE @,
        !.updatedReplicas = IF getPodRevision(pod) = status.updateRevision THEN @ + d ELSE @]

\* status.Replicas counted inside the check of line 289
GatherOne_ReplicasOfLive(status, pod) ==
    [status EXCEPT
        !.replicas = IF isCreated(pod) /\ ~isTerminating(pod) THEN @ + 1 ELSE @,
        !.readyReplicas = IF isRunningAndReady(pod) THEN @ + 1 ELSE @,
        !.currentReplicas = IF /\ isCreated(pod) /\ ~isTerminating(pod)
                               /\ getPodRevision(pod) = status.currentRevision
                            THEN @ + 1 ELSE @,
        !.updatedReplicas = IF /\ isCreated(pod) /\ ~isTerminating(pod)
                               /\ getPodRevision(pod) = status.updateRevision
                            THEN @ + 1 ELSE @]

\* one pass of the loop of lines 279-301 over pods[i]
GatherOne(status, pod) ==
    [status EXCEPT
        !.replicas = @ + 1,
        !.readyReplicas = IF isRunningAndReady(pod) THEN @ + 1 ELSE @,
        !.currentReplicas = IF /\ isCreated(pod) /\ ~isTerminating(pod)
                               /\ getPodRevision(pod) = status.currentRevision
                            THEN @ + 1 ELSE @,
        !.updatedReplicas = IF /\ isCreated(pod) /\ ~isTerminating(pod)
                               /\ getPodRevision(pod) = status.updateRevision
                            THEN @ + 1 ELSE @]

RECURSIVE GatherStatus(_, _, _)
GatherStatus(status, ps, i) ==
    IF i > Len(ps) THEN status
    ELSE GatherStatus(GatherOne(status, ps[i]), ps, i + 1)

\* the unhealthy pods, in the order of pods (lines 298-300)
UnhealthyObserved(ps) == SelectSeq(ps, LAMBDA p : ~isHealthy(p))

\* the placeholders appended for i in [len(pods), spec.replicas): each is
\* built with int(status.ObservedGeneration) as its ordinal (lines 303-311)
Placeholders(s, currentSet, updateSet, status, ps) ==
    [j \in 1 .. (IF s.replicas > Len(ps) THEN s.replicas - Len(ps) ELSE 0) |->
        newVersionedStatefulSetPod(currentSet, updateSet, status.currentRevision,
                                   status.updateRevision, status.observedGeneration)]

\* the check of line 323 left out
isBeingDeleted_Never(s) == FALSE

\* set.DeletionTimestamp != nil (line 323)
isBeingDeleted(s) == s.deleting

\* the short circuit of line 414 left out
isOnDelete_Never(s) == FALSE

\* set.Spec.UpdateStrategy.Type == OnDelete (line 414)
isOnDelete(s) == s.strategy = "OnDelete"

\* A call on ssc.podControl.  acc is [status, calls, events, err]; the
\* failAt-th call of the pass returns an error (0: none does).
PodControl(acc, op, site, idx, pod, failAt) ==
    LET ok == Len(acc.calls) + 1 # failAt
    IN  [acc EXCEPT !.calls = Append(@, [op |-> op, site |-> site, idx |-> idx,
                                          pod |-> pod, ok |-> ok]),
                    !.err = ~ok]

\* lines 329-351: a failed pod is deleted and replaced by a new pod object
\* of the same ordinal.  Yields the accumulator and the pod the rest of the
\* loop body goes on with.
\* the counters after a call on the pod control that returned no error
Counted(acc, pod, d) ==
    IF acc.err THEN acc
    ELSE [acc EXCEPT !.status = [CountRevision(@, pod, d) EXCEPT !.replicas = @ + d]]

\* lines 330-337: the event and the delete of a failed pod
DeleteFailed(c, acc, pod, k) ==
    PodControl([acc EXCEPT !.events = Append(@, [reason |-> "RecreatingFailedPod",
                                                   ord |-> getOrdinal(pod)])],
               "delete", "repair", k, pod, c.failAt)

\* lines 353-367: a pod that has not been created is created
CreatePod(c, acc, pod, k) ==
    Counted(PodControl(acc, "create", "repair", k, pod, c.failAt), pod, 1)

\* lines 352-376, for a pod that is not failed, or the new pod object that
\* stands for a failed one
CreateOrUpdate(c, acc, pod, k) ==
    IF acc.err THEN acc
    ELSE IF ~isCreated(pod) THEN CreatePod(c, acc, pod, k)
    ELSE IF identityMatches(c.set, pod) /\ storageMatches(c.set, pod) THEN acc
    ELSE PodControl(acc, "update", "repair", k, pod, c.failAt)

\* the loop body with a continue after the delete of a failed pod
RepairPod_NoRecreate(c, acc, pod, k) ==
    IF isFailed(pod)
    THEN Counted(DeleteFailed(c, acc, pod, k), pod, -1)
    ELSE CreateOrUpdate(c, acc, pod, k)

\* the body of the loop over unhealthy, lines 327-377: a failed pod is
\* deleted and replaced by a new pod object of the same ordinal (lines
\* 329-351), with which the body goes on
RepairPod(c, acc, pod, k) ==
    IF isFailed(pod)
    THEN CreateOrUpdate(c, Counted(DeleteFailed(c, acc, pod, k), pod, -1),
                        newVersionedStatefulSetPod(c.currentSet, c.updateSet,
                            acc.status.currentRevision, acc.status.updateRevision,
                            getOrdinal(pod)),
                        k)
    ELSE CreateOrUpdate(c, acc, pod, k)

RECURSIVE RepairLoop(_, _, _, _)
RepairLoop(c, acc, unhealthy, k) ==
    IF acc.err \/ k > Len(unhealthy) THEN acc
    ELSE RepairLoop(c, RepairPod(c, acc, unhealthy[k], k - 1), unhealthy, k + 1)

\* the body of the scale-down loop for pods[target], lines 386-410
CountedRevision(acc, pod, d) ==
    IF acc.err THEN acc ELSE [acc EXCEPT !.status = CountRevision(@, pod, d)]

\* the scale-down delete with status.Replicas decremented as well, as after
\* the delete of a failed pod (line 344)
ScaleDownPod_DecrementsReplicas(c, acc, target) ==
    IF isTerminating(c.pods[target + 1]) THEN acc
    ELSE Counted(PodControl(acc, "delete", "scaledown", target,
                            c.pods[target + 1], c.failAt),
                 c.pods[target + 1], -1)

ScaleDownPod(c, acc, target) ==
    IF isTerminating(c.pods[target + 1]) THEN acc
    ELSE CountedRevision(PodControl(acc, "delete", "scaledown", target,
                                    c.pods[target + 1], c.failAt),
                         c.pods[target + 1], -1)

\* the loop with needToDelete decremented after the continue of line 394: a
\* terminating pod is not counted
RECURSIVE ScaleDownLoop_SkipUncounted(_, _, _, _)
ScaleDownLoop_SkipUncounted(c, acc, target, needToDelete) ==
    IF acc.err \/ target < 0 \/ needToDelete <= 0 THEN acc
    ELSE ScaleDownLoop_SkipUncounted(c, ScaleDownPod(c, acc, target), target - 1,
            IF isTerminating(c.pods[target + 1]) THEN needToDelete
            ELSE needToDelete - 1)

\* for target := len(pods)-1; target >= 0 && needToDelete > 0; target--
RECURSIVE ScaleDownLoop(_, _, _, _)
ScaleDownLoop(c, acc, target, needToDelete) ==
    IF acc.err \/ target < 0 \/ needToDelete <= 0 THEN acc
    ELSE ScaleDownLoop(c, ScaleDownPod(c, acc, target), target - 1, needToDelete - 1)

\* lines 419-422
UpdateMin(s) == s.partition

\* the body of the rolling-update loop for pods[target], lines 426-437:
\* CurrentReplicas is decremented before the delete is issued
RollingUpdatePod(c, acc, target) ==
    IF /\ getPodRevision(c.pods[target + 1]) # acc.status.updateRevision
       /\ ~isTerminating(c.pods[target + 1])
    THEN PodControl([acc EXCEPT !.status.currentReplicas = @ - 1],
                    "delete", "rollingupdate", target, c.pods[target + 1], c.failAt)
    ELSE acc

\* for target := len(pods)-1; target >= updateMin; target--
RECURSIVE RollingUpdateLoop(_, _, _, _)
RollingUpdateLoop(c, acc, target, updateMin) ==
    IF acc.err \/ target < updateMin THEN acc
    ELSE RollingUpdateLoop(c, RollingUpdatePod(c, acc, target), target - 1, updateMin)

\* updateStatefulSet: yields [status, calls, events, err]
\* lines 413-440, on the accumulator the scale-down leaves
UpdatePhase(c, acc) ==
    IF acc.err \/ isOnDelete(c.set) THEN acc
    ELSE RollingUpdateLoop(c, acc, Len(c.pods) - 1, UpdateMin(c.set))

\* lines 321-440, on the status gathered from the pods
Phases(c, status) ==
    IF isBeingDeleted(c.set)
    THEN [status |-> status, calls |-> <<>>, events |-> <<>>, err |-> FALSE]
    ELSE UpdatePhase(c,
            ScaleDownLoop(c,
                RepairLoop(c,
                    [status |-> status, calls |-> <<>>, events |-> <<>>, err |-> FALSE],
                    UnhealthyObserved(c.pods)
                        \o Placeholders(c.set, c.currentSet, c.updateSet, status, c.pods),
                    1),
                Len(c.pods) - 1, Len(c.pods) - c.set.replicas))

\* updateStatefulSet: yields [status, calls, events, err].  When
\* ApplyRevision returns an error (lines 259-266) it returns a nil status and
\* the error, before any call on the pod control.
updateStatefulSet(s, currentRevision, updateRevision, collisionCount, ps, fault) ==
    IF fault.apply # 0
    THEN [status |-> Nil, calls |-> <<>>, events |-> <<>>, err |-> TRUE]
    ELSE Phases([set |-> s,
                 currentSet |-> ApplyRevision(s, currentRevision),
                 updateSet |-> ApplyRevision(s, updateRevision),
                 pods |-> ps, failAt |-> fault.pod],
                GatherStatus(NewStatus(s, currentRevision, updateRevision, collisionCount),
                             ps, 1))

----------------------------------------------------------------------------
(* pkg/controller/history as the control loop uses it.  A revision is      *)
(* [name, template, revision]; a name is [hash, cc]: the hash of the       *)
(* template and the collision count it was built with.                     *)

\* the hash of a template: "A" and "C" hash alike, which is what makes a
\* name collision between different templates possible
HashTemplate(t) == IF t = "C" THEN "A" ELSE t

ControllerRevisionName(t, collisionCount) == [hash |-> HashTemplate(t), cc |-> collisionCount]

\* the zero value of status.currentRevision
EmptyName == [hash |-> "", cc |-> 0]

HashRank(h) == IF h = "" THEN 0 ELSE IF h = "A" THEN 1 ELSE 2

NameLess(a, b) ==
    \/ HashRank(a.hash) < HashRank(b.hash)
    \/ HashRank(a.hash) = HashRank(b.hash) /\ a.cc < b.cc

\* the order of SortControllerRevisions: by Revision, then by name
RevisionLess(a, b) ==
    \/ a.revision < b.revision
    \/ a.revision = b.revision /\ NameLess(a.name, b.name)

RECURSIVE SortControllerRevisions(_)
SortControllerRevisions(S) ==
    IF S = {} THEN <<>>
    ELSE LET least == CHOOSE r \in S : \A q \in S : q = r \/ RevisionLess(r, q)
         IN  <<least>> \o SortControllerRevisions(S \ {least})

EqualRevision(a, b) == a.template = b.template

FindEqualRevisions(revisions, needle) ==
    SelectSeq(revisions, LAMBDA r : EqualRevision(r, needle))

nextRevision(revisions) ==
    IF Len(revisions) = 0 THEN 1 ELSE revisions[Len(revisions)].revision + 1

newRevision(s, revision, collisionCount) ==
    [name |-> ControllerRevisionName(s.template, collisionCount),
     template |-> s.template, revision |-> revision]

\* UpdateControllerRevision: the stored revision of that name gets the new
\* Revision number.  Yields the history and the updated revision.
UpdateControllerRevision(st, revision, newRevisionNumber) ==
    LET updated == [revision EXCEPT !.revision = newRevisionNumber]
    IN  [store |-> (st \ {r \in st : r.name = revision.name}) \cup {updated},
         revision |-> updated]

\* CreateControllerRevision: the revision is stored under the name built
\* from its template and the collision count; when that name is taken by a
\* revision of the same template that one is the result, when it is taken by
\* another template the collision count goes up by one and the create is
\* tried again.
RECURSIVE CreateControllerRevision(_, _, _)
CreateControllerRevision(st, revision, collisionCount) ==
    LET named == [revision EXCEPT
                    !.name = ControllerRevisionName(revision.template, collisionCount)]
        taken == {r \in st : r.name = named.name}
    IN  IF taken = {}
        THEN [store |-> st \cup {named}, revision |-> named,
              collisionCount |-> collisionCount]
        ELSE LET exists == CHOOSE r \in taken : TRUE
             IN  IF exists.template = named.template
                 THEN [store |-> st, revision |-> exists,
                       collisionCount |-> collisionCount]
                 ELSE CreateControllerRevision(st, revision, collisionCount + 1)

DeleteControllerRevision(st, revision) == {r \in st : r.name # revision.name}

----------------------------------------------------------------------------
(* getStatefulSetRevisions, lines 182-241 *)

\* the first of the equivalent revisions taken for the last
RollbackTarget_First(equalRevisions) == equalRevisions[1]

\* line 214: the revision rolled back to, equalRevisions[equalCount-1]
RollbackTarget(equalRevisions) == equalRevisions[Len(equalRevisions)]

\* the Revision after that of the revision rolled back to taken for the
\* Revision of the new revision
RollbackNumber_OwnSuccessor(target, updateRevision) == target.revision + 1

\* line 215: the Revision it gets, updateRevision.Revision
RollbackNumber(target, updateRevision) == updateRevision.revision

\* the collision count handed to CreateControllerRevision by value: the
\* collisions it sees are lost
CollisionCountAfter_ByValue(cr, collisionCount) == collisionCount

\* line 221: CreateControllerRevision is handed &collisionCount, so that the
\* count returned (lines 225, 240) is the count after its collisions
CollisionCountAfter(cr, collisionCount) == cr.collisionCount

\* lines 203-225: the update revision.  Yields the history after the call,
\* the update revision, the collision count, the calls on the history and
\* whether the call on the history returned an error (lines 216-218,
\* 222-224), which leaves the history as it was.
UpdateRevisionOf(s, revisions, st, collisionCount, fails) ==
    LET revisionCount == Len(revisions)
        candidate == newRevision(s, nextRevision(revisions), collisionCount)
        equalRevisions == FindEqualRevisions(revisions, candidate)
        equalCount == Len(equalRevisions)
    IN  IF equalCount > 0
           /\ EqualRevision(revisions[revisionCount], equalRevisions[equalCount])
        THEN [store |-> st, revision |-> revisions[revisionCount],
              collisionCount |-> collisionCount, calls |-> <<>>, err |-> FALSE]
        ELSE IF equalCount > 0
        THEN LET target == RollbackTarget(equalRevisions)
                 number == RollbackNumber(target, candidate)
                 u == UpdateControllerRevision(st, target, number)
             IN  [store |-> IF fails THEN st ELSE u.store,
                  revision |-> IF fails THEN Nil ELSE u.revision,
                  collisionCount |-> collisionCount,
                  calls |-> <<[op |-> "update", name |-> target.name,
                               revision |-> number, ok |-> ~fails]>>,
                  err |-> fails]
        ELSE LET cr == CreateControllerRevision(st, candidate, collisionCount)
             IN  [store |-> IF fails THEN st ELSE cr.store,
                  revision |-> IF fails THEN Nil ELSE cr.revision,
                  collisionCount |-> CollisionCountAfter(cr, collisionCount),
                  calls |-> <<[op |-> "create", name |-> cr.revision.name,
                               revision |-> cr.revision.revision, ok |-> ~fails]>>,
                  err |-> fails]

\* lines 227-238: the current revision is the listed revision named by
\* status.currentRevision, and the update revision when there is none
CurrentRevisionOf(s, revisions, updateRevision) ==
    LET found == SelectSeq(revisions, LAMBDA r : r.name = s.status.currentRevision)
    IN  IF Len(found) > 0 THEN found[1] ELSE updateRevision

\* lines 216-218, 222-224 and 227-240: an error of the history ends the
\* call with nil revisions
WithCurrentRevision(s, revisions, u) ==
    [currentRevision |-> IF u.err THEN Nil
                         ELSE CurrentRevisionOf(s, revisions, u.revision),
     updateRevision |-> u.revision,
     collisionCount |-> u.collisionCount,
     store |-> u.store, calls |-> u.calls, err |-> u.err]

\* lines 198-201: an error of newRevision ends the call before any call on
\* the history
NewRevisionFailed(s, st) ==
    [currentRevision |-> Nil, updateRevision |-> Nil,
     collisionCount |-> s.status.collisionCount,
     store |-> st, calls |-> <<>>, err |-> TRUE]

\* r put in its place in the sorted list: after the entries that are not
\* after it in the order
Inserted(sorted, r) ==
    SelectSeq(sorted, LAMBDA e : ~RevisionLess(r, e))
        \o <<r>> \o SelectSeq(sorted, LAMBDA e : RevisionLess(r, e))

RECURSIVE InsertedFrom(_, _, _)
InsertedFrom(sorted, revisions, i) ==
    IF i > Len(revisions) THEN sorted
    ELSE InsertedFrom(Inserted(sorted, revisions[i]), revisions, i + 1)

\* the list handed in, sorted as SortControllerRevisions sorts a slice
\* (lines 79 and 188)
Sorted(revisions) == InsertedFrom(<<>>, revisions, 1)

\* lines 190-240, on the sorted revisions
RevisionsOf(s, revisions, st, fault) ==
    IF fault.newRevision THEN NewRevisionFailed(s, st)
    ELSE WithCurrentRevision(s, revisions,
            UpdateRevisionOf(s, revisions, st, s.status.collisionCount,
                             fault.history))

getStatefulSetRevisions(s, revisions, st, fault) ==
    RevisionsOf(s, Sorted(revisions), st, fault)

----------------------------------------------------------------------------
(* truncateHistory, lines 143-174 *)

RECURSIVE PodRevisions(_)
PodRevisions(ps) ==
    IF ps = <<>> THEN {} ELSE {getPodRevision(Head(ps))} \cup PodRevisions(Tail(ps))

\* the revisions of the pods not marked live
LiveNames_NoPods(ps, current, update) == {current.name, update.name}

\* lines 151-154
LiveNames(ps, current, update) == {current.name, update.name} \cup PodRevisions(ps)

\* the cut of line 167 one revision short
TruncatedRevisions_OneShort(s, ps, revisions, current, update) ==
    LET live == LiveNames(ps, current, update)
        history == SelectSeq(revisions, LAMBDA r : r.name \notin live)
    IN  IF Len(history) <= s.historyLimit + 1 THEN <<>>
        ELSE SubSeq(history, 1, Len(history) - s.historyLimit - 1)

\* lines 156-167: the revisions handed to DeleteControllerRevision, in order
TruncatedRevisions(s, ps, revisions, current, update) ==
    LET live == LiveNames(ps, current, update)
        history == SelectSeq(revisions, LAMBDA r : r.name \notin live)
        historyLen == Len(history)
        historyLimit == s.historyLimit
    IN  IF historyLen <= historyLimit THEN <<>>
        ELSE SubSeq(history, 1, historyLen - historyLimit)

\* the loop of lines 168-172 from history[i] on: the failAt-th
\* DeleteControllerRevision returns an error, which ends the loop.  acc is
\* [store, deleted, err].
RECURSIVE DeleteAll(_, _, _, _)
DeleteAll(acc, history, i, failAt) ==
    IF i > Len(history) THEN acc
    ELSE IF i = failAt THEN [acc EXCEPT !.err = TRUE]
    ELSE DeleteAll([acc EXCEPT !.store = DeleteControllerRevision(@, history[i]),
                               !.deleted = Append(@, history[i])],
                   history, i + 1, failAt)

\* yields the history it leaves, the revisions deleted and whether it
\* returned an error
truncateHistory(s, ps, revisions, current, update, st, failAt) ==
    DeleteAll([store |-> st, deleted |-> <<>>, err |-> FALSE],
              TruncatedRevisions(s, ps, revisions, current, update), 1, failAt)

----------------------------------------------------------------------------
(* updateStatefulSetStatus, lines 446-465 *)

\* completeRollingUpdate: a rolling update without partition whose pods are
\* all updated and ready is complete, and the update revision becomes the
\* current one
completeRollingUpdate(s, status) ==
    IF /\ s.strategy = "RollingUpdate"
       /\ s.partition = 0
       /\ status.replicas = s.replicas
       /\ status.updatedReplicas = s.replicas
       /\ status.readyReplicas = s.replicas
       /\ status.currentRevision # status.updateRevision
    THEN [status EXCEPT !.currentRevision = status.updateRevision,
                        !.currentReplicas = status.updatedReplicas]
    ELSE status

inconsistentStatus(s, status) == status # s.status

\* lines 453-464: yields the status handed in as completeRollingUpdate left
\* it, whether it was written by the status updater, and whether the status
\* updater returned an error
WriteStatus(s, final, fails) ==
    [status |-> final,
     written |-> inconsistentStatus(s, final) /\ ~fails,
     err |-> inconsistentStatus(s, final) /\ fails]

updateStatefulSetStatus(s, status, fails) ==
    WriteStatus(s, completeRollingUpdate(s, status), fails)

----------------------------------------------------------------------------
(* UpdateStatefulSet, lines 72-115 *)

\* the record of a pass up to the return of updateStatefulSet (line 88).
\* err is the error UpdateStatefulSet returns, errAt the call that gave it:
\* "list" (line 77), "newRevision" or "history" (line 84), "apply" or "pod"
\* (line 90), "status" (line 96) or "truncate" (line 114).
PassRecord(s, ps, revisions, g, d) ==
    [done |-> TRUE, applied |-> FALSE, set |-> s, pods |-> ps, revisions |-> revisions,
     currentRevision |-> g.currentRevision,
     updateRevision |-> g.updateRevision,
     collisionCount |-> g.collisionCount,
     historyCalls |-> g.calls,
     status |-> d.status, calls |-> d.calls, events |-> d.events,
     err |-> d.err,
     errAt |-> IF ~d.err THEN "" ELSE IF d.status = Nil THEN "apply" ELSE "pod",
     written |-> FALSE, published |-> s.status, deleted |-> <<>>]

\* the record of a pass that ended before updateStatefulSet was called
\* (lines 76-78, 83-85)
EarlyReturn(s, ps, revisions, historyCalls, errAt) ==
    [done |-> TRUE, applied |-> FALSE, set |-> s, pods |-> ps, revisions |-> revisions,
     currentRevision |-> Nil, updateRevision |-> Nil,
     collisionCount |-> s.status.collisionCount,
     historyCalls |-> historyCalls,
     status |-> Nil, calls |-> <<>>, events |-> <<>>,
     err |-> TRUE, errAt |-> errAt,
     written |-> FALSE, published |-> s.status, deleted |-> <<>>]

\* lines 93-114: the status is published and the history truncated; an
\* error of truncateHistory is the error of the call (line 114)
PublishAndTruncate(s, base, w, t) ==
    [pass |-> [base EXCEPT !.written = w.written, !.published = w.status,
                           !.deleted = t.deleted,
                           !.err = t.err,
                           !.errAt = IF t.err THEN "truncate" ELSE ""],
     set |-> [s EXCEPT !.status = w.status],
     store |-> t.store]

\* lines 94-114: an error of the status updater ends the call with nothing
\* published and the history not truncated
AfterStatus(s, ps, revisions, g, d, w, fault) ==
    IF w.err
    THEN [pass |-> [PassRecord(s, ps, revisions, g, d) EXCEPT
                        !.err = TRUE, !.errAt = "status"],
          set |-> s, store |-> g.store]
    ELSE PublishAndTruncate(s, PassRecord(s, ps, revisions, g, d), w,
             truncateHistory(s, ps, revisions, g.currentRevision, g.updateRevision,
                             g.store, fault.delete))

\* lines 88-114: an error of updateStatefulSet ends the call
AfterUpdate(s, ps, revisions, g, d, fault) ==
    IF d.err
    THEN [pass |-> PassRecord(s, ps, revisions, g, d), set |-> s,
          store |-> g.store]
    ELSE AfterStatus(s, ps, revisions, g, d,
                     updateStatefulSetStatus(s, d.status, fault.status), fault)

\* lines 82-114: an error of getStatefulSetRevisions ends the call
AfterRevisions(s, ps, revisions, g, fault) ==
    IF g.err
    THEN [pass |-> EarlyReturn(s, ps, revisions, g.calls,
                             IF g.calls = <<>> THEN "newRevision" ELSE "history"),
          set |-> s, store |-> g.store]
    ELSE AfterUpdate(s, ps, revisions, g,
                     updateStatefulSet(s, g.currentRevision, g.updateRevision,
                                       g.collisionCount, ps, fault),
                     fault)

\* lines 79-114: the listed revisions, in whatever order ListRevisions gave
\* them, are sorted (line 79); the sorted list is what getStatefulSetRevisions
\* and truncateHistory are handed
AfterSort(s, ps, st, revisions, fault) ==
    AfterRevisions(s, ps, revisions,
                   getStatefulSetRevisions(s, revisions, st, fault), fault)

AfterList(s, ps, st, revisions, fault) ==
    AfterSort(s, ps, st, Sorted(revisions), fault)

\* ListRevisions (line 75): the revisions of the history as a list.  The
\* order of the list is the store's; it is taken here from the greatest
\* Revision down, and line 79 sorts it whatever it is.
Reversed(revisions) ==
    [i \in 1 .. Len(revisions) |-> revisions[Len(revisions) + 1 - i]]

ListRevisions(st) == Reversed(SortControllerRevisions(st))

\* The whole call: yields the record of the pass, the set with the status
\* the call publishes, and the history it leaves.  An error of
\* ListRevisions ends it at once (lines 75-78).
UpdateStatefulSet(s, ps, st, fault) ==
    IF fault.list
    THEN [pass |-> EarlyReturn(s, ps, <<>>, <<>>, "list"), set |-> s, store |-> st]
    ELSE AfterList(s, ps, st, ListRevisions(st), fault)

----------------------------------------------------------------------------
(* The state machine *)

ZeroStatus ==
    [observedGeneration |-> 0, replicas |-> 0, readyReplicas |-> 0,
     currentReplicas |-> 0, updatedReplicas |-> 0,
     currentRevision |-> EmptyName, updateRevision |-> EmptyName,
     collisionCount |-> 0]

NoPass ==
    [done |-> FALSE, applied |-> FALSE, set |-> <<>>, pods |-> <<>>, revisions |-> <<>>,
     currentRevision |-> Nil, updateRevision |-> Nil, collisionCount |-> 0,
     historyCalls |-> <<>>, status |-> Nil, calls |-> <<>>, events |-> <<>>,
     err |-> FALSE, errAt |-> "", written |-> FALSE, published |-> ZeroStatus, deleted |-> <<>>]

\* what a pod on the platform looks like, apart from its ordinal and revision
PodShapes ==
    { [phase |-> "Running", ready |-> TRUE,  terminating |-> FALSE, identity |-> TRUE,  storage |-> TRUE],
      [phase |-> "Pending", ready |-> FALSE, terminating |-> FALSE, identity |-> FALSE, storage |-> TRUE],
      [phase |-> "Failed",  ready |-> FALSE, terminating |-> FALSE, identity |-> TRUE,  storage |-> TRUE],
      [phase |-> "Running", ready |-> TRUE,  terminating |-> TRUE,  identity |-> TRUE,  storage |-> TRUE] }

Pod(ord, rev, shape) ==
    [ord |-> ord, rev |-> rev, phase |-> shape.phase, ready |-> shape.ready,
     terminating |-> shape.terminating, identity |-> shape.identity,
     storage |-> shape.storage]

PodsOf(names) ==
    {Pod(o, r, sh) : o \in 0 .. MaxOrdinal, r \in names, sh \in PodShapes}

\* the observed lists: at most MaxPods pods in ordinal order; an ordinal may
\* be missing, and may be there twice (a stale cache)
PodLists(names) ==
    {ps \in UNION {[1 .. n -> PodsOf(names)] : n \in 0 .. MaxPods} :
        \A i \in 1 .. Len(ps) - 1 : ps[i].ord <= ps[i + 1].ord}

RevA == [name |-> ControllerRevisionName("A", 0), template |-> "A", revision |-> 1]

\* The set has run at template "A"; its pods are any observed list, its
\* template is "A" still or has been changed to "B".
InitPods ==
    /\ store = {RevA}
    /\ pods \in PodLists({RevA.name, ControllerRevisionName("B", 0)})
    /\ \E n \in 0 .. MaxReplicas, p \in 0 .. MaxPartition,
          strategy \in {"RollingUpdate", "OnDelete"}, deleting \in BOOLEAN,
          t \in {"A", "B"} :
          /\ strategy = "OnDelete" => p = 0
          /\ set = [replicas |-> n, partition |-> p, strategy |-> strategy,
                    deleting |-> deleting, generation |-> 1, template |-> t,
                    historyLimit |-> MaxHistoryLimit,
                    status |-> [ZeroStatus EXCEPT !.currentRevision = RevA.name]]
    /\ pass = NoPass

Init == InitPods

\* the errors that can occur in a pass, given the record r of the pass
\* without error: one of the calls it makes returns an error
Faults(r) ==
    {NoFault}
    \cup {[NoFault EXCEPT !.list = TRUE], [NoFault EXCEPT !.newRevision = TRUE]}
    \cup {[NoFault EXCEPT !.history = TRUE] : k \in 1 .. Len(r.historyCalls)}
    \cup {[NoFault EXCEPT !.apply = k] : k \in 1 .. 2}
    \cup {[NoFault EXCEPT !.pod = k] : k \in 1 .. Len(r.calls)}
    \cup {[NoFault EXCEPT !.status = TRUE] : k \in 1 .. (IF r.written THEN 1 ELSE 0)}
    \cup {[NoFault EXCEPT !.delete = k] : k \in 1 .. Len(r.deleted)}

\* UpdateStatefulSet on the set, the observed pods and the history; the
\* platform chooses which of its calls returns an error, if any
Returns(r) ==
    /\ pass' = r.pass
    /\ set' = r.set
    /\ store' = r.store

Reconcile ==
    /\ \E fault \in Faults(UpdateStatefulSet(set, pods, store, NoFault).pass) :
          Returns(UpdateStatefulSet(set, pods, store, fault))
    /\ UNCHANGED pods

\* The platform carries out one call of the last pass that returned no
\* error: a deleted pod is gone, a created pod is there and pending (unless a
\* pod of its name is there already), an updated pod has its identity.
Deleted(ps, pod) ==
    LET hit == {i \in 1 .. Len(ps) : ps[i] = pod}
    IN  IF hit = {} THEN ps
        ELSE LET i == CHOOSE j \in hit : \A q \in hit : j <= q
             IN  SubSeq(ps, 1, i - 1) \o SubSeq(ps, i + 1, Len(ps))

Created(ps, pod) ==
    IF \E i \in 1 .. Len(ps) : getOrdinal(ps[i]) = getOrdinal(pod) THEN ps
    ELSE SelectSeq(ps, LAMBDA p : getOrdinal(p) < getOrdinal(pod))
            \o <<[pod EXCEPT !.phase = "Pending"]>>
            \o SelectSeq(ps, LAMBDA p : getOrdinal(p) > getOrdinal(pod))

Updated(ps, pod) ==
    [i \in 1 .. Len(ps) |-> IF ps[i] = pod THEN [pod EXCEPT !.identity = TRUE] ELSE ps[i]]

CarriedOut(ps, call) ==
    IF ~call.ok THEN ps
    ELSE IF call.op = "delete" THEN Deleted(ps, call.pod)
    ELSE IF call.op = "create" THEN Created(ps, call.pod)
    ELSE Updated(ps, call.pod)

RECURSIVE CarriedOutAll(_, _)
CarriedOutAll(ps, calls) ==
    IF calls = <<>> THEN ps
    ELSE CarriedOutAll(CarriedOut(ps, Head(calls)), Tail(calls))

\* the watch delivers the pods as the calls of the last pass left them
Platform ==
    /\ pass.done
    /\ ~pass.applied
    /\ pass.calls # <<>>
    /\ pods' = CarriedOutAll(pods, pass.calls)
    /\ pass' = [pass EXCEPT !.applied = TRUE]
    /\ UNCHANGED <<set, store>>

\* the template of the set is changed: a new generation.  The record of the
\* last pass, which was of the set as it was, is dropped.
ChangeTemplate ==
    /\ set.generation < MaxGeneration
    /\ ~set.deleting
    /\ \E t \in Templates \ {set.template} :
          set' = [set EXCEPT !.template = t, !.generation = @ + 1]
    /\ pass' = NoPass
    /\ UNCHANGED <<pods, store>>

Next == Reconcile \/ Platform

Spec == Init /\ [][Next]_vars

\* The revision history: any history of at most MaxRevisions revisions of
\* any templates, with or without a pod of one of the revisions.  The set
\* starts at template "A" or "B": "C" hashes as "A" does, so that a set at
\* "C" is a set at "A" with the two exchanged in the history.
RevisionUniverse ==
    {[name |-> ControllerRevisionName(t, c), template |-> t, revision |-> n] :
        t \in Templates, c \in 0 .. MaxCollisions, n \in 1 .. MaxRevisions}

Histories ==
    {h \in SUBSET RevisionUniverse :
        /\ Cardinality(h) <= MaxRevisions
        /\ \A a, b \in h : a.name = b.name => a = b}

Healthy == [phase |-> "Running", ready |-> TRUE, terminating |-> FALSE,
            identity |-> TRUE, storage |-> TRUE]

InitHistory ==
    /\ store \in Histories
    /\ pods \in {<<>>} \cup {<<Pod(0, r.name, Healthy)>> : r \in store}
    /\ \E t \in {"A", "B"}, h \in 0 .. MaxHistoryLimit, cc \in 0 .. MaxCollisions,
          cur \in {EmptyName} \cup {r.name : r \in store} :
          set = [replicas |-> Len(pods), partition |-> 0, strategy |-> "RollingUpdate",
                 deleting |-> FALSE, generation |-> 1, template |-> t,
                 historyLimit |-> h,
                 status |-> [ZeroStatus EXCEPT !.currentRevision = cur,
                                               !.collisionCount = cc]]
    /\ pass = NoPass

NextHistory == Reconcile \/ ChangeTemplate

SpecHistory == InitHistory /\ [][NextHistory]_vars

----------------------------------------------------------------------------
(* What the claims speak of, read from the record of the last pass *)

\* getStatefulSetRevisions of the last pass returned its revisions
Revised == pass.done /\ pass.errAt \notin {"list", "newRevision", "history"}

\* updateStatefulSet of the last pass got to its status
Ran == Revised /\ pass.errAt # "apply"

\* updateStatefulSet of the last pass returned without error
UpdateOk == Ran /\ pass.errAt # "pod"

\* the status updater of the last pass was not called or returned no error
StatusOk == UpdateOk /\ pass.errAt # "status"

CallIndexes == 1 .. Len(pass.calls)

Creates == {k \in CallIndexes : pass.calls[k].op = "create"}

Deletes == {k \in CallIndexes : pass.calls[k].op = "delete"}

\* the deletes of the rolling-update loop, those of the scale-down loop and
\* those of failed pods
UpdateDeletes == {k \in Deletes : pass.calls[k].site = "rollingupdate"}

ScaleDownDeletes == {k \in Deletes : pass.calls[k].site = "scaledown"}

FailedDeletes == {k \in Deletes : pass.calls[k].site = "repair"}

\* the creates of the placeholders of missing pods: the entries of unhealthy
\* after the observed ones
PlaceholderCreates ==
    {k \in Creates : pass.calls[k].idx >= Len(UnhealthyObserved(pass.pods))}

Rolling(s) == s.strategy = "RollingUpdate"

\* pods[i] (from 0, as in the source) is not terminating and not at the
\* update revision
NotUpdated(i) ==
    /\ ~isTerminating(pass.pods[i + 1])
    /\ getPodRevision(pass.pods[i + 1]) # pass.status.updateRevision

\* the observed pods are those of the ordinals 0 .. len(pods)-1, one each
DenseOrdinals == \A i \in 1 .. Len(pass.pods) : getOrdinal(pass.pods[i]) = i - 1

\* as many pods are observed as the set wants
NoSurplus == Len(pass.pods) <= pass.set.replicas

\* C1: under the rolling-update strategy one pass (here: on exactly
\* spec.replicas pods, of the ordinals 0 .. spec.replicas-1) issues a delete
\* for update for at most one pod, the one of the highest ordinal at or above
\* the partition that is not terminating and not at the update revision; no
\* delete for update is issued on a pod while a pod of a higher ordinal is
\* not terminating and not updated.
C1_OneUpdateDeletePerPass ==
    (pass.done /\ Rolling(pass.set) /\ DenseOrdinals
        /\ Len(pass.pods) = pass.set.replicas) =>
        /\ Cardinality(UpdateDeletes) <= 1
        /\ \A k \in UpdateDeletes :
              /\ pass.calls[k].idx >= pass.set.partition
              /\ NotUpdated(pass.calls[k].idx)
              /\ \A j \in 0 .. Len(pass.pods) - 1 :
                    NotUpdated(j) =>
                        getOrdinal(pass.pods[j + 1]) <= getOrdinal(pass.calls[k].pod)

\* C2: the rolling-update loop never issues a delete on a pod whose ordinal
\* is below the partition.
C2_PartitionRespected ==
    pass.done =>
        \A k \in UpdateDeletes : getOrdinal(pass.calls[k].pod) >= pass.set.partition

\* C3: a pass creates at most one pod, and creates none while an observed
\* pod of a lower ordinal is not healthy.  (Which ordinal a create is issued
\* for is the subject of C7.)
C3_OneCreatePerPass ==
    pass.done =>
        /\ Cardinality(Creates) <= 1
        /\ \A k \in Creates :
              \A i \in 1 .. Len(pass.pods) :
                  getOrdinal(pass.pods[i]) < getOrdinal(pass.calls[k].pod)
                      => isHealthy(pass.pods[i])

\* every observed pod is running and ready, and none below spec.replicas is
\* missing
AllRunningAndReady ==
    /\ \A i \in 1 .. Len(pass.pods) : isRunningAndReady(pass.pods[i])
    /\ Len(pass.pods) >= pass.set.replicas

\* C4: a pass issues a delete for scale-down or for update only when every
\* observed pod was running and ready at its start.
C4_DeleteOnlyWhenAllReady ==
    pass.done =>
        ((ScaleDownDeletes \cup UpdateDeletes) # {} => AllRunningAndReady)

\* C5, as claimed: the pass that deletes a failed pod (here: of a set with
\* no more pods than it wants) issues no create for its ordinal.
C5_NoRecreateInSamePass ==
    (pass.done /\ NoSurplus) =>
        \A k \in FailedDeletes :
            \A j \in Creates :
                getOrdinal(pass.calls[j].pod) # getOrdinal(pass.calls[k].pod)

FailedObserved == {i \in 1 .. Len(pass.pods) : isFailed(pass.pods[i])}

RecreateEvent(pod) == [reason |-> "RecreatingFailedPod", ord |-> getOrdinal(pod)]

\* C5, amended: a pass on a set that is not being deleted emits the
\* RecreatingFailedPod event and issues a delete for every failed pod it
\* comes to, and a delete that succeeds is followed at once, in the same
\* pass, by the create of a new pod of the same ordinal.
C5_DeleteThenRecreate ==
    (pass.done /\ ~pass.set.deleting) =>
        /\ \A k \in FailedDeletes :
              /\ isFailed(pass.calls[k].pod)
              /\ \E e \in 1 .. Len(pass.events) :
                    pass.events[e] = RecreateEvent(pass.calls[k].pod)
              /\ pass.calls[k].ok =>
                    /\ k + 1 \in Creates
                    /\ getOrdinal(pass.calls[k + 1].pod) = getOrdinal(pass.calls[k].pod)
                    /\ ~isCreated(pass.calls[k + 1].pod)
        /\ Len(pass.events) = Cardinality(FailedDeletes)
        /\ UpdateOk => Cardinality(FailedDeletes) = Cardinality(FailedObserved)

C5_Witness ==
    /\ pass.done
    /\ \E k \in FailedDeletes :
          /\ pass.calls[k].ok
          /\ k + 1 \in Creates
          /\ pass.calls[k + 1].ok
          /\ getOrdinal(pass.calls[k].pod) = 1

\* C6: a pass on a set that carries a deletion timestamp calls the pod
\* control for nothing; updateStatefulSet, once it has the set at both
\* revisions, returns without error the status gathered from the pods, and
\* that status is published unless the status updater returns an error.
C6_NoActionWhenDeleted ==
    (pass.done /\ pass.set.deleting) =>
        /\ pass.calls = <<>>
        /\ Ran =>
              /\ UpdateOk
              /\ pass.status.replicas = Len(pass.pods)
              /\ pass.status.observedGeneration = pass.set.generation
        /\ StatusOk =>
              /\ pass.published = completeRollingUpdate(pass.set, pass.status)
              /\ set.status = pass.published

C6_Witness ==
    /\ pass.done
    /\ ~pass.err
    /\ pass.set.deleting
    /\ Len(pass.pods) > pass.set.replicas
    /\ FailedObserved # {}
    /\ \E i \in 0 .. Len(pass.pods) - 1 : NotUpdated(i) /\ isHealthy(pass.pods[i + 1])

\* C7: the creates of one pass for the placeholders of missing pods are for
\* ordinals in [len(pods), spec.replicas), no two for the same ordinal.
C7_PlaceholderOrdinals ==
    pass.done =>
        /\ \A k \in PlaceholderCreates :
              /\ getOrdinal(pass.calls[k].pod) >= Len(pass.pods)
              /\ getOrdinal(pass.calls[k].pod) < pass.set.replicas
        /\ \A k, j \in PlaceholderCreates :
              k # j => getOrdinal(pass.calls[k].pod) # getOrdinal(pass.calls[j].pod)

\* the number of the indexes in S
Count(S) == Cardinality(S)

\* the revision a new pod of that ordinal is tagged with
NewPodRevision(ordinal) ==
    IF Rolling(pass.set) /\ ordinal < pass.set.partition
    THEN pass.status.currentRevision ELSE pass.status.updateRevision

NumPlaceholders ==
    IF pass.set.replicas > Len(pass.pods) THEN pass.set.replicas - Len(pass.pods) ELSE 0

\* The number of pods tagged with revision name that the counters stand at
\* after the repair and scale-down phases of a pass without error: the pods
\* that are created and not terminating, less the failed ones deleted, plus
\* the pods created in their place and for the placeholders, less the pods
\* deleted for scale-down.
CountedAt(name) ==
    Count({i \in 1 .. Len(pass.pods) :
              /\ isCreated(pass.pods[i]) /\ ~isTerminating(pass.pods[i])
              /\ getPodRevision(pass.pods[i]) = name})
    - Count({i \in FailedObserved : getPodRevision(pass.pods[i]) = name})
    + Count({i \in FailedObserved : NewPodRevision(getOrdinal(pass.pods[i])) = name})
    + (IF NewPodRevision(pass.set.generation) = name THEN NumPlaceholders ELSE 0)
    - Count({i \in 1 .. Len(pass.pods) :
              /\ i > pass.set.replicas /\ ~isTerminating(pass.pods[i])
              /\ getPodRevision(pass.pods[i]) = name})

\* C8: under the OnDelete strategy a pass deletes failed pods and the pods
\* beyond spec.replicas only, never a pod for its revision, and its status
\* carries the counters as the repair and scale-down phases left them
\* (phases that a set being deleted does not get to, see C6).
C8_OnDeleteNoUpdateDelete ==
    (pass.done /\ pass.set.strategy = "OnDelete") =>
        /\ \A k \in Deletes :
              \/ /\ pass.calls[k].site = "repair"
                 /\ isFailed(pass.calls[k].pod)
              \/ /\ pass.calls[k].site = "scaledown"
                 /\ pass.calls[k].idx >= pass.set.replicas
                 /\ pass.calls[k].pod = pass.pods[pass.calls[k].idx + 1]
        /\ (UpdateOk /\ ~pass.set.deleting) =>
              /\ pass.status.replicas = Len(pass.pods) + NumPlaceholders
              /\ pass.status.readyReplicas =
                    Count({i \in 1 .. Len(pass.pods) : isRunningAndReady(pass.pods[i])})
              /\ pass.status.currentReplicas = CountedAt(pass.status.currentRevision)
              /\ pass.status.updatedReplicas = CountedAt(pass.status.updateRevision)

C8_Witness ==
    /\ pass.done
    /\ pass.set.strategy = "OnDelete"
    /\ ~pass.err
    /\ ~pass.set.deleting
    /\ Deletes # {}
    /\ \E i \in 0 .. Len(pass.pods) - 1 :
          /\ i < pass.set.replicas
          /\ NotUpdated(i)
          /\ isHealthy(pass.pods[i + 1])

----------------------------------------------------------------------------
(* The revisions of the last pass *)

Listed == {pass.revisions[i] : i \in 1 .. Len(pass.revisions)}

\* the listed revisions equivalent to the template of the set
Equivalent == {r \in Listed : r.template = pass.set.template}

\* the greatest Revision listed (0 when none is)
MaxListed ==
    IF Listed = {} THEN 0
    ELSE LET top == CHOOSE r \in Listed : \A q \in Listed : q.revision <= r.revision
         IN  top.revision

\* a revision equivalent to the template is listed, and the last of the
\* sorted list is not one
RollbackCase ==
    /\ Equivalent # {}
    /\ pass.revisions[Len(pass.revisions)].template # pass.set.template

\* C9: when the sorted history holds a revision equivalent to the template
\* of the set and its last entry is not one, getStatefulSetRevisions issues
\* exactly one update on the history (once newRevision has built the
\* revision of the template), which sets the Revision of an equivalent
\* revision to the greatest Revision plus one, issues no create, and, when
\* the update returns no error, returns the revision so updated as the
\* update revision.
C9_RollbackBumpsRevision ==
    (pass.done /\ RollbackCase /\ pass.errAt # "newRevision") =>
        /\ Len(pass.historyCalls) = 1
        /\ pass.historyCalls[1].op = "update"
        /\ pass.historyCalls[1].revision = MaxListed + 1
        /\ \E r \in Equivalent :
              /\ pass.historyCalls[1].name = r.name
              /\ Revised => pass.updateRevision = [r EXCEPT !.revision = MaxListed + 1]
        /\ pass.historyCalls[1].ok <=> Revised
        /\ Revised =>
              /\ pass.updateRevision \in store
              /\ \A r \in store :
                    r.name = pass.updateRevision.name => r = pass.updateRevision

\* the history [R1(A, Revision 1), R2(B, Revision 2)] with the template A
C9_Witness ==
    /\ pass.done
    /\ pass.set.template = "A"
    /\ pass.revisions =
          <<[name |-> ControllerRevisionName("A", 0), template |-> "A", revision |-> 1],
            [name |-> ControllerRevisionName("B", 0), template |-> "B", revision |-> 2]>>
    /\ pass.updateRevision =
          [name |-> ControllerRevisionName("A", 0), template |-> "A", revision |-> 3]
    /\ Cardinality(store) = 2

\* C10: the update revision getStatefulSetRevisions returns is equivalent
\* to the template of the set and no revision of the history has a greater
\* Revision; when revisions equivalent to the template were listed, it is
\* one of those of the greatest Revision among them.
C10_UpdateRevisionIsGreatest ==
    Revised =>
        /\ pass.updateRevision.template = pass.set.template
        /\ pass.updateRevision \in store
        /\ \A r \in store \cup Listed : r.revision <= pass.updateRevision.revision
        /\ Equivalent # {} =>
              \E r \in Equivalent :
                  /\ r.name = pass.updateRevision.name
                  /\ \A q \in Equivalent : q.revision <= r.revision

\* after a change of the template, with two equivalent revisions of
\* different Revision listed and a revision of another template after them
C10_Witness ==
    /\ pass.done
    /\ ~pass.err
    /\ pass.set.generation > 1
    /\ RollbackCase
    /\ \E a, b \in Equivalent : a.revision < b.revision

----------------------------------------------------------------------------
(* Name collisions *)

\* the name a new revision of the template of the set gets at a collision count
NameAt(collisionCount) == ControllerRevisionName(pass.set.template, collisionCount)

\* no listed revision is equivalent to the template, the name built with the
\* collision count of the set's status is that of a listed revision (of
\* another template, then), and the name built with the next count is free:
\* the create collides once and then succeeds
CollidesOnce ==
    /\ Equivalent = {}
    /\ \E r \in Listed : r.name = NameAt(pass.set.status.collisionCount)
    /\ \A r \in Listed : r.name # NameAt(pass.set.status.collisionCount + 1)

\* C11: when the create of the new revision collides with a name once and
\* then succeeds (returns no error), the collision count of the status the
\* pass produces is that of the status of the set plus one.  The status of the set handed in still
\* carries the old count, so that a pass that gets to the status update
\* finds the new status to differ from it and writes it.
C11_CollisionCountPlusOne ==
    (Revised /\ CollidesOnce) =>
        /\ pass.collisionCount = pass.set.status.collisionCount + 1
        /\ Ran => pass.status.collisionCount = pass.set.status.collisionCount + 1
        /\ pass.updateRevision.name = NameAt(pass.set.status.collisionCount + 1)
        /\ pass.updateRevision \in store
        /\ StatusOk =>
              /\ pass.written
              /\ pass.published.collisionCount = pass.set.status.collisionCount + 1
        /\ ~StatusOk => set.status = pass.set.status

\* a collision at count 0 and one at count 1
C11_Witness ==
    /\ pass.done
    /\ CollidesOnce
    /\ pass.set.status.collisionCount = 1
    /\ Len(pass.historyCalls) = 1
    /\ pass.historyCalls[1].op = "create"
    /\ pass.published.collisionCount = 2

----------------------------------------------------------------------------
(* The history after truncateHistory *)

\* the names truncateHistory is to hold live in the last pass: the current
\* and the update revision it was handed, and the revisions of the pods
LiveInPass ==
    {pass.currentRevision.name, pass.updateRevision.name}
        \cup {getPodRevision(pass.pods[i]) : i \in 1 .. Len(pass.pods)}

NonLive(revs) == {r \in revs : r.name \notin LiveInPass}

DeletedRevisions == {pass.deleted[i] : i \in 1 .. Len(pass.deleted)}

\* C12: after a pass that got through truncateHistory, at most
\* spec.revisionHistoryLimit revisions of the history are not live.
C12_NonLiveWithinLimit ==
    (pass.done /\ ~pass.err) =>
        Cardinality(NonLive(store)) <= pass.set.historyLimit

\* revisions were deleted, and as many as the limit allows are left
C12_Witness ==
    /\ pass.done
    /\ ~pass.err
    /\ pass.deleted # <<>>
    /\ pass.set.historyLimit = 1
    /\ Cardinality(NonLive(store)) = 1

\* the number of the listed revisions that are not live beyond the limit
Excess ==
    IF Cardinality(NonLive(Listed)) > pass.set.historyLimit
    THEN Cardinality(NonLive(Listed)) - pass.set.historyLimit ELSE 0

\* C13: truncateHistory deletes no revision named by the current revision,
\* by the update revision or by a pod; of the listed revisions that are not
\* live it deletes as many as exceed the limit (fewer when a delete returns
\* an error, which ends it), each once, and none with a Revision greater
\* than that of one it keeps.  A pass that does not get to it deletes none.
C13_OnlyOldestNonLiveDeleted ==
    /\ (pass.done /\ ~StatusOk) => pass.deleted = <<>>
    /\ StatusOk =>
        /\ DeletedRevisions \subseteq NonLive(Listed)
        /\ Cardinality(DeletedRevisions) = Len(pass.deleted)
        /\ ~pass.err => Len(pass.deleted) = Excess
        /\ pass.err => Len(pass.deleted) < Excess
        /\ \A d \in DeletedRevisions :
              /\ d \notin store
              /\ \A k \in NonLive(Listed) \ DeletedRevisions : d.revision <= k.revision
        /\ \A r \in Listed \ DeletedRevisions :
              \E q \in store : q.name = r.name

\* a revision is deleted while one of a lower Revision, live only because a
\* pod is tagged with it, is kept
C13_Witness ==
    /\ StatusOk
    /\ ~pass.err
    /\ \E d \in DeletedRevisions :
          \E r \in Listed \cap store :
              /\ r.revision < d.revision
              /\ r.name \notin {pass.currentRevision.name, pass.updateRevision.name}
              /\ \E i \in 1 .. Len(pass.pods) : getPodRevision(pass.pods[i]) = r.name

----------------------------------------------------------------------------
(* Errors of the pod control *)

\* a call on the pod control returned an error in the last pass
PodCallFailed == pass.done /\ \E k \in CallIndexes : ~pass.calls[k].ok

\* a call of the last pass failed after another had succeeded
FailedPartWay == PodCallFailed /\ \E k \in CallIndexes : pass.calls[k].ok

\* C14: when a call on the pod control fails after others have succeeded,
\* the status computed so far is published before the error is returned.
C14_StatusPublishedOnError ==
    FailedPartWay => pass.published = completeRollingUpdate(pass.set, pass.status)

\* a pass follows a pass without error on the same set specification, the
\* same observed pods and the same listed history, and no call of it fails
IdenticalInputs ==
    /\ pass.done
    /\ ~pass.err
    /\ pass'.done
    /\ ~pass'.applied
    /\ ~pass'.err
    /\ pass'.pods = pass.pods
    /\ pass'.revisions = pass.revisions
    /\ [pass'.set EXCEPT !.status = ZeroStatus] = [pass.set EXCEPT !.status = ZeroStatus]

\* C15: the second of two passes on identical inputs issues no call on the
\* pod control and changes nothing in the history.
C15_SecondPassIdle ==
    [][(IdenticalInputs /\ pods' = pods /\ set'.generation = set.generation) =>
          /\ pass'.calls = <<>>
          /\ pass'.historyCalls = <<>>
          /\ pass'.deleted = <<>>]_vars

----------------------------------------------------------------------------
(* Convergence: reconciles and a platform that carries out what they issue *)

\* A rolling-update set without partition that is not being deleted, and the
\* pods of the ordinals 0 .. k-1, none terminating, otherwise in any shape
\* and at either revision.
InitConverge ==
    /\ store = {RevA}
    /\ pods \in {ps \in PodLists({RevA.name, ControllerRevisionName("B", 0)}) :
                    \A i \in 1 .. Len(ps) :
                        getOrdinal(ps[i]) = i - 1 /\ ~isTerminating(ps[i])}
    /\ \E n \in 0 .. MaxReplicas, t \in {"A", "B"} :
          set = [replicas |-> n, partition |-> 0, strategy |-> "RollingUpdate",
                 deleting |-> FALSE, generation |-> 1, template |-> t,
                 historyLimit |-> MaxHistoryLimit,
                 status |-> [ZeroStatus EXCEPT !.currentRevision = RevA.name]]
    /\ pass = NoPass

\* UpdateStatefulSet is called once the watch has delivered what the last
\* pass issued, and none of its calls fails
ReconcileOk ==
    /\ ~pass.done \/ pass.applied \/ pass.calls = <<>>
    /\ Returns(UpdateStatefulSet(set, pods, store, NoFault))
    /\ UNCHANGED pods

\* a pod that is not running and ready comes to be so
BecomeReady ==
    /\ \E i \in 1 .. Len(pods) :
          /\ ~isRunningAndReady(pods[i])
          /\ ~isFailed(pods[i])
          /\ ~isTerminating(pods[i])
          /\ pods' = [pods EXCEPT ![i] = [@ EXCEPT !.phase = "Running", !.ready = TRUE]]
    /\ UNCHANGED <<set, store, pass>>

NextConverge == ReconcileOk \/ Platform \/ BecomeReady

SpecConverge ==
    /\ InitConverge
    /\ [][NextConverge]_vars
    /\ WF_vars(ReconcileOk)
    /\ WF_vars(Platform)
    /\ WF_vars(BecomeReady)

\* spec.replicas healthy pods of the ordinals 0 .. spec.replicas-1, all of
\* the revision of the template of the set, which the published status
\* names as both its current and its update revision
Converged ==
    /\ Len(pods) = set.replicas
    /\ \A i \in 1 .. Len(pods) :
          /\ getOrdinal(pods[i]) = i - 1
          /\ isHealthy(pods[i])
          /\ getPodRevision(pods[i]) = set.status.updateRevision
    /\ set.status.currentRevision = set.status.updateRevision
    /\ \E r \in store : r.name = set.status.updateRevision /\ r.template = set.template

\* nothing is left to happen: the last pass saw the pods as they are and
\* issued no call, another pass would issue none and would leave the set and
\* the history as they are, and no pod is about to change
Quiescent ==
    /\ pass.done
    /\ ~pass.err
    /\ pass.calls = <<>>
    /\ pass.pods = pods
    /\ UpdateStatefulSet(set, pods, store, NoFault).pass.calls = <<>>
    /\ UpdateStatefulSet(set, pods, store, NoFault).set = set
    /\ UpdateStatefulSet(set, pods, store, NoFault).store = store
    /\ \A i \in 1 .. Len(pods) : isHealthy(pods[i])

\* C16: a rolling-update set without partition, reconciled again and again
\* with no call failing while the platform carries out every create and
\* delete and pods come to be running and ready, eventually has exactly
\* spec.replicas healthy pods of the ordinals 0 .. spec.replicas-1 at the
\* update revision, and a published status whose current revision is the
\* update revision.  Stated of the states in which nothing is left to
\* happen, where a run stays for ever: they are converged.
C16_QuiescentIsConverged == Quiescent => Converged

----------------------------------------------------------------------------
(* The counters of the status *)

\* C17: in the status updateStatefulSet returns without error, and in the
\* status the set carries after the pass, Replicas is not negative and ReadyReplicas is not greater
\* than Replicas.
C17_ReadyWithinReplicas ==
    UpdateOk =>
        /\ pass.status.replicas >= 0
        /\ pass.status.readyReplicas <= pass.status.replicas
        /\ pass.published.replicas >= 0
        /\ pass.published.readyReplicas <= pass.published.replicas

\* a pass that deleted and created pods, on pods of which one is ready and
\* terminating
C17_Witness ==
    /\ pass.done
    /\ ~pass.err
    /\ Deletes # {}
    /\ Creates # {}
    /\ \E i \in 1 .. Len(pass.pods) :
          isRunningAndReady(pass.pods[i]) /\ isTerminating(pass.pods[i])

\* C18, as claimed: every delete issued for scale-down takes one off the
\* Replicas of the status returned.
C18_ScaleDownDecrementsReplicas ==
    (pass.done /\ ~pass.err /\ ScaleDownDeletes # {}) =>
        pass.status.replicas = Len(pass.pods) - Cardinality(ScaleDownDeletes)

\* C18, amended: a delete issued for scale-down takes one off the counter
\* of the revision of the pod deleted (CurrentReplicas, UpdatedReplicas) and
\* leaves Replicas as it is: the status of a pass that deleted for
\* scale-down counts every observed pod in Replicas.
C18_ScaleDownKeepsReplicas ==
    (pass.done /\ ScaleDownDeletes # {}) =>
        /\ pass.status.replicas = Len(pass.pods)
        /\ UpdateOk =>
              /\ pass.status.updatedReplicas = CountedAt(pass.status.updateRevision)
              /\ pass.status.currentReplicas =
                    CountedAt(pass.status.currentRevision) - Cardinality(UpdateDeletes)

\* spec.replicas = 1 and two healthy pods at the update revision: one delete,
\* of the second, and a status with Replicas = 2 and UpdatedReplicas = 1
C18_Witness ==
    /\ pass.done
    /\ ~pass.err
    /\ pass.set.replicas = 1
    /\ Len(pass.pods) = 2
    /\ \A i \in 1 .. 2 :
          /\ isHealthy(pass.pods[i])
          /\ getPodRevision(pass.pods[i]) = pass.status.updateRevision
    /\ Len(pass.calls) = 1
    /\ ScaleDownDeletes = {1}
    /\ pass.calls[1].idx = 1
    /\ pass.status.replicas = 2
    /\ pass.status.updatedReplicas = 1

\* the positions (from 0) of the observed list beyond spec.replicas
SurplusPositions == {i \in 0 .. Len(pass.pods) - 1 : i >= pass.set.replicas}

\* C19: scale-down issues its deletes for pods at positions of the observed
\* list from spec.replicas on, in descending order of position, none for a
\* terminating pod and none for a position below spec.replicas; a pass that
\* gets through scale-down without error has issued one for every pod at
\* such a position that is not terminating.
C19_ScaleDownSurplusOnly ==
    pass.done =>
        /\ \A k \in ScaleDownDeletes :
              /\ pass.calls[k].idx \in SurplusPositions
              /\ pass.calls[k].pod = pass.pods[pass.calls[k].idx + 1]
              /\ ~isTerminating(pass.calls[k].pod)
        /\ \A k, j \in ScaleDownDeletes :
              k < j => pass.calls[k].idx > pass.calls[j].idx
        /\ (UpdateOk /\ ~pass.set.deleting) =>
              {pass.calls[k].idx : k \in ScaleDownDeletes} =
                  {i \in SurplusPositions : ~isTerminating(pass.pods[i + 1])}

\* two pods beyond spec.replicas, one of them terminating, and a healthy pod
\* or none below
C19_Witness ==
    /\ pass.done
    /\ ~pass.err
    /\ Cardinality(ScaleDownDeletes) = 1
    /\ \E i \in SurplusPositions : isTerminating(pass.pods[i + 1])
    /\ \E i \in SurplusPositions : ~isTerminating(pass.pods[i + 1])

\* C20: in every status updateStatefulSet returns, CurrentReplicas and
\* UpdatedReplicas are not negative.
C20_RevisionCountersNotNegative ==
    Ran =>
        /\ pass.status.currentReplicas >= 0
        /\ pass.status.updatedReplicas >= 0

====
